---- MODULE Spec2Model ----
(***************************************************************************)
(* A model of record-hours (src/src/main.rs, src/src/format.rs): the       *)
(* persisted snapshot (hours.log.json), the `record` command (Record::open,*)
(* Record::insert, Record::commit), the `show` command (show and its       *)
(* helper get_times), and the renderings of a time span (MyDuration,       *)
(* DecimalDuration, Formatter).                                            *)
(*                                                                         *)
(* Times of day are whole seconds since midnight (chrono's NaiveTime also  *)
(* carries nanoseconds; the tolerance is a whole number of seconds, and    *)
(* nothing in the program looks below the second except the comparison in  *)
(* Record::insert, which is monotone in it).  Dates are <<year, month,     *)
(* day>> triples ordered lexicographically, as NaiveDate is.               *)
(***************************************************************************)
EXTENDS Integers, Sequences, FiniteSets, TLC

VARIABLES
    file,      \* the snapshot on disk: [kind, data]
    pre_file,  \* the snapshot as it was when the last command started
    cmd,       \* the last command: its arguments, the clock it read, its result
    stdout,    \* the lines the last command wrote to standard output
    times,     \* show: what get_times returned for each date it reported
    fmt,       \* a rendering: its input, the place in the template, the text written
    proc,      \* record invocations run side by side: each one's place and Log
    rewrite    \* the bytes written since the file's last truncation, who
               \* wrote last, whether two rewrites have overlapped

vars == <<file, pre_file, cmd, stdout, times, fmt, proc, rewrite>>

----------------------------------------------------------------------------
(* Bounds of the model.                                                    *)

\* the length of the day log a snapshot holds before the first command
MaxInitLen == 3
\* record is not run when it would leave more punches than this in the snapshot
MaxPunches == 4

----------------------------------------------------------------------------
(* Data model.                                                             *)

\* main.rs:172, the tolerance of every punch Record::insert creates
DefaultTolerance == 60 * 15

\* the clock readings of the model: midnight, the default tolerance after
\* midnight (the inclusive end of a window opened at midnight) and one
\* second later (the first instant outside it)
Times == {0, DefaultTolerance, DefaultTolerance + 1}

\* the times of the punches a snapshot holds before the first command:
\* midnight, and the first instant outside the default window after it
InitTimes == {0, DefaultTolerance + 1}

\* tolerances a snapshot edited by hand or written by another version holds
Tolerances == {0, DefaultTolerance + 1}

Dates == {<<2024, 3, 1>>, <<2024, 3, 2>>}

Projects == {"", "acme"}

TimeStampType == {"Start", "End"}

is_start(ts) == ts.typ = "Start"

is_end(ts) == ts.typ = "End"

\* BTreeMap::default()
EmptyMap == <<>>

\* Log::default()
LogDefault == EmptyMap

\* the value of key k in BTreeMap m after entry(k).or_default()
OrDefault(m, k, default) == IF k \in DOMAIN m THEN m[k] ELSE default

\* BTreeMap m with key k bound to v
MapInsert(m, k, v) == [x \in (DOMAIN m) \cup {k} |-> IF x = k THEN v ELSE m[x]]

\* Ord for Date (derived on NaiveDate): a < b
DateLess(a, b) ==
    \/ a[1] < b[1]
    \/ a[1] = b[1] /\ a[2] < b[2]
    \/ a[1] = b[1] /\ a[2] = b[2] /\ a[3] < b[3]

----------------------------------------------------------------------------
(* The snapshot: serde_json of Log.  A NaiveTime is written as             *)
(* "HH:MM:SS[.f]" and read back from it; the model keeps the three fields. *)

SerializeTime(t) == <<t \div 3600, (t \div 60) % 60, t % 60>>

DeserializeTime(s) == s[1] * 3600 + s[2] * 60 + s[3]

SerializeTimeStamp(ts) ==
    [type |-> ts.typ, time |-> SerializeTime(ts.time), tolerance |-> ts.tolerance]

DeserializeTimeStamp(j) ==
    [typ |-> j.type, time |-> DeserializeTime(j.time), tolerance |-> j.tolerance]

\* serde_json::to_writer_pretty(output, &self.log)
Serialize(log) ==
    [p \in DOMAIN log |->
        [d \in DOMAIN log[p] |->
            [i \in 1..Len(log[p][d]) |-> SerializeTimeStamp(log[p][d][i])]]]

\* serde_json::from_slice / from_reader on a well-formed snapshot
Deserialize(data) ==
    [p \in DOMAIN data |->
        [d \in DOMAIN data[p] |->
            [i \in 1..Len(data[p][d]) |-> DeserializeTimeStamp(data[p][d][i])]]]

\* what the path holds: nothing, zero bytes, bytes serde_json rejects, or a
\* serialized Log
Absent == [kind |-> "absent", data |-> EmptyMap]

EmptyFile == [kind |-> "empty", data |-> EmptyMap]

Malformed == [kind |-> "malformed", data |-> EmptyMap]

Snapshot(log) == [kind |-> "json", data |-> Serialize(log)]

----------------------------------------------------------------------------
(* Record::insert                                                          *)

\* InsertEntry with the kinds of line 163 swapped (is_end for is_start)
InsertEntry_SwappedKind(entry, now) ==
    LET n == Len(entry)
        last_acceptable == entry[n].time + entry[n].tolerance
    IN  IF n > 0 /\ is_end(entry[n]) /\ now <= last_acceptable
        THEN [entry EXCEPT ![n].time = now]
        ELSE Append(entry,
                    [typ       |-> IF n > 0 /\ is_end(entry[n]) THEN "End" ELSE "Start",
                     time      |-> now,
                     tolerance |-> 60 * 15])

\* InsertEntry with the window of line 157 closed one instant early (< for <=)
InsertEntry_Exclusive(entry, now) ==
    LET n == Len(entry)
        last_acceptable == entry[n].time + entry[n].tolerance
    IN  IF n > 0 /\ is_end(entry[n]) /\ now < last_acceptable
        THEN [entry EXCEPT ![n].time = now]
        ELSE Append(entry,
                    [typ       |-> IF n > 0 /\ is_start(entry[n]) THEN "End" ELSE "Start",
                     time      |-> now,
                     tolerance |-> 60 * 15])

\* InsertEntry with the window of line 154 taken from the default tolerance
\* instead of the last punch's own
InsertEntry_DefaultWindow(entry, now) ==
    LET n == Len(entry)
        last_acceptable == entry[n].time + 60 * 15
    IN  IF n > 0 /\ is_end(entry[n]) /\ now <= last_acceptable
        THEN [entry EXCEPT ![n].time = now]
        ELSE Append(entry,
                    [typ       |-> IF n > 0 /\ is_start(entry[n]) THEN "End" ELSE "Start",
                     time      |-> now,
                     tolerance |-> 60 * 15])

\* InsertEntry without the is_end test of line 157: a Start is debounced too
InsertEntry_DebounceAny(entry, now) ==
    LET n == Len(entry)
        last_acceptable == entry[n].time + entry[n].tolerance
    IN  IF n > 0 /\ now <= last_acceptable
        THEN [entry EXCEPT ![n].time = now]
        ELSE Append(entry,
                    [typ       |-> IF n > 0 /\ is_start(entry[n]) THEN "End" ELSE "Start",
                     time      |-> now,
                     tolerance |-> 60 * 15])

\* InsertEntry whose debounce amends the day's first punch (first_mut for
\* the last_mut of line 153)
InsertEntry_AmendFirst(entry, now) ==
    LET n == Len(entry)
        last_acceptable == entry[n].time + entry[n].tolerance
    IN  IF n > 0 /\ is_end(entry[n]) /\ now <= last_acceptable
        THEN [entry EXCEPT ![1].time = now]
        ELSE Append(entry,
                    [typ       |-> IF n > 0 /\ is_start(entry[n]) THEN "End" ELSE "Start",
                     time      |-> now,
                     tolerance |-> 60 * 15])

\* the body of insert on the day's Vec<TimeStamp>, lines 153-173
InsertEntry(entry, now) ==
    LET n == Len(entry)
        last_acceptable == entry[n].time + entry[n].tolerance
    IN  IF n > 0 /\ is_end(entry[n]) /\ now <= last_acceptable
        THEN [entry EXCEPT ![n].time = now]
        ELSE Append(entry,
                    [typ       |-> IF n > 0 /\ is_start(entry[n]) THEN "End" ELSE "Start",
                     time      |-> now,
                     tolerance |-> 60 * 15])

\* Insert that binds the project to a map of the one date (insert for
\* entry().or_default() on the project)
Insert_FreshProject(log, project, date, now) ==
    LET proj  == OrDefault(log, project, EmptyMap)
        entry == OrDefault(proj, date, <<>>)
    IN  MapInsert(log, project, MapInsert(EmptyMap, date, InsertEntry(entry, now)))

\* insert: the entry of (project, self.date), created empty when missing
Insert(log, project, date, now) ==
    LET proj  == OrDefault(log, project, EmptyMap)
        entry == OrDefault(proj, date, <<>>)
    IN  MapInsert(log, project, MapInsert(proj, date, InsertEntry(entry, now)))

----------------------------------------------------------------------------
(* show: get_times and the per-day report                                  *)

\* iter.find(|x| x.is_start()) on the punches from index i on: the index of
\* the first Start, or 0 for None (the iterator is then exhausted)
RECURSIVE FindStart(_, _)
FindStart(day, i) ==
    IF i > Len(day) THEN 0
    ELSE IF is_start(day[i]) THEN i
    ELSE FindStart(day, i + 1)

\* get_times, with the iterator standing before index i
RECURSIVE GetTimesFrom(_, _, _, _)
GetTimesFrom(day, i, start, items) ==
    IF i > Len(day) THEN [items |-> items, open |-> <<start>>]
    ELSE IF is_start(day[i]) THEN GetTimesFrom(day, i + 1, day[i].time, items)
    ELSE LET pushed == Append(items, [start |-> start, end |-> day[i].time])
             next   == FindStart(day, i + 1)
         IN  IF next = 0 THEN [items |-> pushed, open |-> <<>>]
             ELSE GetTimesFrom(day, next + 1, day[next].time, pushed)

\* get_times without line 232: the Start that find returns does not become
\* the start of the next item
RECURSIVE GetTimesFrom_NoReseed(_, _, _, _)
GetTimesFrom_NoReseed(day, i, start, items) ==
    IF i > Len(day) THEN [items |-> items, open |-> <<start>>]
    ELSE IF is_start(day[i]) THEN GetTimesFrom_NoReseed(day, i + 1, day[i].time, items)
    ELSE LET pushed == Append(items, [start |-> start, end |-> day[i].time])
             next   == FindStart(day, i + 1)
         IN  IF next = 0 THEN [items |-> pushed, open |-> <<>>]
             ELSE GetTimesFrom_NoReseed(day, next + 1, start, pushed)

get_times_NoReseed(day, first) ==
    GetTimesFrom_NoReseed(day, first + 1, day[first].time, <<>>)

\* get_times with a break for the return of line 230: the loop's exit value,
\* Some(start), is returned after a closing End too
RECURSIVE GetTimesFrom_Break(_, _, _, _)
GetTimesFrom_Break(day, i, start, items) ==
    IF i > Len(day) THEN [items |-> items, open |-> <<start>>]
    ELSE IF is_start(day[i]) THEN GetTimesFrom_Break(day, i + 1, day[i].time, items)
    ELSE LET pushed == Append(items, [start |-> start, end |-> day[i].time])
             next   == FindStart(day, i + 1)
         IN  IF next = 0 THEN [items |-> pushed, open |-> <<start>>]
             ELSE GetTimesFrom_Break(day, next + 1, day[next].time, pushed)

get_times_Break(day, first) ==
    GetTimesFrom_Break(day, first + 1, day[first].time, <<>>)

\* get_times without line 223: a Start met in the loop does not move start,
\* so the first Start of a run begins the interval
RECURSIVE GetTimesFrom_KeepStart(_, _, _, _)
GetTimesFrom_KeepStart(day, i, start, items) ==
    IF i > Len(day) THEN [items |-> items, open |-> <<start>>]
    ELSE IF is_start(day[i]) THEN GetTimesFrom_KeepStart(day, i + 1, start, items)
    ELSE LET pushed == Append(items, [start |-> start, end |-> day[i].time])
             next   == FindStart(day, i + 1)
         IN  IF next = 0 THEN [items |-> pushed, open |-> <<>>]
             ELSE GetTimesFrom_KeepStart(day, next + 1, day[next].time, pushed)

get_times_KeepStart(day, first) ==
    GetTimesFrom_KeepStart(day, first + 1, day[first].time, <<>>)

\* get_times without the find of lines 229-232: every End pushes an item
RECURSIVE GetTimesFrom_NoFind(_, _, _, _)
GetTimesFrom_NoFind(day, i, start, items) ==
    IF i > Len(day)
    THEN [items |-> items,
          open  |-> IF is_start(day[Len(day)]) THEN <<start>> ELSE <<>>]
    ELSE IF is_start(day[i]) THEN GetTimesFrom_NoFind(day, i + 1, day[i].time, items)
    ELSE GetTimesFrom_NoFind(day, i + 1, start,
                             Append(items, [start |-> start, end |-> day[i].time]))

get_times_NoFind(day, first) ==
    GetTimesFrom_NoFind(day, first + 1, day[first].time, <<>>)

\* get_times(iter, start) for the iterator left after the first Start, at
\* index first, was found
get_times(day, first) == GetTimesFrom(day, first + 1, day[first].time, <<>>)

\* times.0.iter().map(|x| x.end.0 - x.start.0).sum(), in seconds
RECURSIVE SumFrom(_, _, _)
SumFrom(items, i, acc) ==
    IF i > Len(items) THEN acc
    ELSE SumFrom(items, i + 1, acc + (items[i].end - items[i].start))

\* Duration that counts every span as positive
RECURSIVE SumFrom_Abs(_, _, _)
SumFrom_Abs(items, i, acc) ==
    IF i > Len(items) THEN acc
    ELSE SumFrom_Abs(items, i + 1,
                     acc + (IF items[i].end < items[i].start
                            THEN items[i].start - items[i].end
                            ELSE items[i].end - items[i].start))

Duration_Abs(items) == SumFrom_Abs(items, 1, 0)

Duration(items) == SumFrom(items, 1, 0)

\* integer division and remainder of i64: toward zero, sign of the dividend
TruncDiv(a, b) == IF a >= 0 THEN a \div b ELSE -((-a) \div b)

TruncRem(a, b) == a - b * TruncDiv(a, b)

\* Duration::num_hours, Duration::num_minutes
num_hours(secs) == TruncDiv(secs, 3600)

num_minutes(secs) == TruncDiv(secs, 60)

Pad2(n) == IF n < 10 THEN "0" \o ToString(n) ELSE ToString(n)

Pad4(n) ==
    IF n < 10 THEN "000" \o ToString(n)
    ELSE IF n < 100 THEN "00" \o ToString(n)
    ELSE IF n < 1000 THEN "0" \o ToString(n)
    ELSE ToString(n)

\* Display for Time: "%H:%M"
TimeDisplay(t) == Pad2(t \div 3600) \o ":" \o Pad2((t \div 60) % 60)

\* Display for Date: NaiveDate's "%Y-%m-%d"
DateDisplay(d) == Pad4(d[1]) \o "-" \o Pad2(d[2]) \o "-" \o Pad2(d[3])

\* Display for MyDuration without the % 60 of line 201: all the minutes of
\* the span after the hours
MyDurationDisplay_TotalMinutes(secs) ==
    (IF num_hours(secs) # 0 THEN ToString(num_hours(secs)) \o "h" ELSE "")
    \o ToString(num_minutes(secs)) \o "min"

\* Display for MyDuration
MyDurationDisplay(secs) ==
    (IF num_hours(secs) # 0 THEN ToString(num_hours(secs)) \o "h" ELSE "")
    \o ToString(TruncRem(num_minutes(secs), 60)) \o "min"

\* Display for DecimalDuration: "{:.02}" of num_minutes as f64 / 60.0.  The
\* hundredths of m/60 are 5m/3, never halfway between two integers, so the
\* rounding is to the nearest
DecimalDurationDisplay(secs) ==
    LET m     == num_minutes(secs)
        abs   == IF m < 0 THEN -m ELSE m
        cents == (5 * abs + 1) \div 3
    IN  (IF m < 0 THEN "-" ELSE "")
        \o ToString(cents \div 100) \o "." \o Pad2(cents % 100)

\* the keys of a BTreeMap<Date, _> in iteration order
RECURSIVE DatesInOrder(_)
DatesInOrder(S) ==
    IF S = {} THEN <<>>
    ELSE LET least == CHOOSE d \in S : \A e \in S : e = d \/ DateLess(d, e)
         IN  <<least>> \o DatesInOrder(S \ {least})

\* DayTimes that takes the day's first punch, of either kind, for the first
\* Start (day.first() for the find of line 247)
DayTimes_FirstPunch(day) ==
    IF day = <<>> THEN <<>>
    ELSE LET t == get_times(day, 1)
         IN  <<[items |-> t.items, open |-> t.open, duration |-> Duration(t.items)]>>

\* one turn of the loop of show (lines 246-269): what get_times returned
\* and the duration summed from it, or nothing when the day has no Start
DayTimes(day) ==
    LET first == FindStart(day, 1)
    IN  IF first = 0 THEN <<>>
        ELSE LET t == get_times(day, first)
             IN  <<[items |-> t.items, open |-> t.open, duration |-> Duration(t.items)]>>

RECURSIVE ItemLines(_, _)
ItemLines(items, i) ==
    IF i > Len(items) THEN <<>>
    ELSE <<"  - " \o TimeDisplay(items[i].start) \o " - " \o TimeDisplay(items[i].end)>>
         \o ItemLines(items, i + 1)

\* the lines one turn of the loop writes
DayLines(date, day, decimal) ==
    LET t == DayTimes(day)
    IN  IF t = <<>> THEN <<>>
        ELSE <<DateDisplay(date) \o " ("
                 \o (IF decimal THEN DecimalDurationDisplay(t[1].duration)
                                ELSE MyDurationDisplay(t[1].duration))
                 \o "):">>
             \o ItemLines(t[1].items, 1)
             \o (IF t[1].open = <<>> THEN <<>>
                 ELSE <<"  - " \o TimeDisplay(t[1].open[1]) \o " - ">>)

\* the loop of show with a break for the continue of line 249: the report
\* stops at the first day without a Start
RECURSIVE ProjectLines_Break(_, _, _, _)
ProjectLines_Break(project_info, dates, i, decimal) ==
    IF i > Len(dates) THEN <<>>
    ELSE IF DayTimes(project_info[dates[i]]) = <<>> THEN <<>>
    ELSE DayLines(dates[i], project_info[dates[i]], decimal)
         \o ProjectLines_Break(project_info, dates, i + 1, decimal)

RECURSIVE ProjectLines(_, _, _, _)
ProjectLines(project_info, dates, i, decimal) ==
    IF i > Len(dates) THEN <<>>
    ELSE DayLines(dates[i], project_info[dates[i]], decimal)
         \o ProjectLines(project_info, dates, i + 1, decimal)

\* ShowResult that takes a project the Log does not hold for one with no
\* entries (unwrap_or_default for the ok_or of line 243)
ShowResult_DefaultProject(f, project, decimal) ==
    IF f.kind # "json"
    THEN [result |-> "parse_error", lines |-> <<>>, times |-> EmptyMap]
    ELSE LET stored == Deserialize(f.data)
             project_info == OrDefault(stored, project, EmptyMap)
             reported == {d \in DOMAIN project_info : DayTimes(project_info[d]) # <<>>}
         IN  [result |-> "ok",
              lines  |-> ProjectLines(project_info, DatesInOrder(DOMAIN project_info),
                                      1, decimal),
              times  |-> [d \in reported |-> DayTimes(project_info[d])[1]]]

\* show(input, project, decimal) on the bytes of an opened file
ShowResult(f, project, decimal) ==
    IF f.kind # "json"
    THEN [result |-> "parse_error", lines |-> <<>>, times |-> EmptyMap]
    ELSE LET stored == Deserialize(f.data)
         IN  IF project \notin DOMAIN stored
             THEN [result |-> "not_found", lines |-> <<>>, times |-> EmptyMap]
             ELSE LET project_info == stored[project]
                      reported == {d \in DOMAIN project_info :
                                      DayTimes(project_info[d]) # <<>>}
                  IN  [result |-> "ok",
                       lines  |-> ProjectLines(project_info,
                                               DatesInOrder(DOMAIN project_info),
                                               1, decimal),
                       times  |-> [d \in reported |-> DayTimes(project_info[d])[1]]]

----------------------------------------------------------------------------
(* main                                                                    *)

\* RecordResult with File::create (line 293) run before Record::open: the
\* snapshot is truncated before it is parsed
RecordResult_CreateFirst(f, project, date, now) ==
    IF f.kind = "malformed"
    THEN [result |-> "parse_error", file |-> EmptyFile]
    ELSE LET log == IF f.kind \in {"absent", "empty"} THEN LogDefault
                    ELSE Deserialize(f.data)
         IN  [result |-> "ok", file |-> Snapshot(Insert(log, project, date, now))]

\* Commands::Record, lines 280-297, given what the clock reads: the
\* snapshot it leaves and how it ends
RecordResult(f, project, date, now) ==
    IF f.kind = "malformed"
    THEN [result |-> "parse_error", file |-> f]
    ELSE LET log == IF f.kind \in {"absent", "empty"} THEN LogDefault
                    ELSE Deserialize(f.data)
         IN  [result |-> "ok", file |-> Snapshot(Insert(log, project, date, now))]

\* MainShowResult that, like Commands::Record, hands show an empty Log's
\* snapshot when the path does not exist
MainShowResult_AbsentAsDefault(f, project, decimal) ==
    ShowResult(IF f.kind = "absent" THEN Snapshot(LogDefault) ELSE f, project, decimal)

\* Commands::Show, lines 298-303
MainShowResult(f, project, decimal) ==
    IF f.kind = "absent"
    THEN [result |-> "io_error", lines |-> <<>>, times |-> EmptyMap]
    ELSE ShowResult(f, project, decimal)

RECURSIVE CountPunches(_, _)
CountPunches(data, keys) ==
    IF keys = {} THEN 0
    ELSE LET k == CHOOSE k \in keys : TRUE
         IN  Len(data[k[1]][k[2]]) + CountPunches(data, keys \ {k})

\* the number of punches a snapshot holds
NumPunches(f) ==
    CountPunches(f.data, {<<p, d>> \in Projects \X Dates :
                             p \in DOMAIN f.data /\ d \in DOMAIN f.data[p]})

NoDate == <<0, 0, 0>>

Record(project, date, now) ==
    \E r \in {RecordResult(file, project, date, now)} :
        /\ NumPunches(r.file) <= MaxPunches
        /\ file' = r.file
        /\ pre_file' = file
        /\ cmd' = [name |-> "record", project |-> project, date |-> date,
                   time |-> now, decimal |-> FALSE, result |-> r.result]
        /\ stdout' = <<>>
        /\ times' = EmptyMap
        /\ UNCHANGED <<fmt, proc, rewrite>>

Show(project, decimal) ==
    \E r \in {MainShowResult(file, project, decimal)} :
        /\ file' = file
        /\ pre_file' = file
        /\ cmd' = [name |-> "show", project |-> project, date |-> NoDate,
                   time |-> 0, decimal |-> decimal, result |-> r.result]
        /\ stdout' = r.lines
        /\ times' = r.times
        /\ UNCHANGED <<fmt, proc, rewrite>>

----------------------------------------------------------------------------
(* The snapshots a first command may find.                                 *)

\* day logs a hand-edited snapshot or one of another version holds: no punch,
\* or MaxInitLen punches of any kinds and times (well-formed or not) that
\* share one tolerance
InitDayLogs ==
    {<<>>}
    \cup UNION {[1..MaxInitLen -> [typ : TimeStampType, time : InitTimes, tolerance : {tol}]] :
                   tol \in Tolerances}

\* a well-formed day of two shifts: 09:00-12:00 and 13:00-17:00
TwoShiftDay ==
    <<[typ |-> "Start", time |->  9 * 3600, tolerance |-> DefaultTolerance],
      [typ |-> "End",   time |-> 12 * 3600, tolerance |-> DefaultTolerance],
      [typ |-> "Start", time |-> 13 * 3600, tolerance |-> DefaultTolerance],
      [typ |-> "End",   time |-> 17 * 3600, tolerance |-> DefaultTolerance]>>

\* logs with at most one day log, that of project "acme" on the first date
InitLogs ==
    {LogDefault, MapInsert(EmptyMap, "acme", EmptyMap)}
    \cup {MapInsert(EmptyMap, "acme", MapInsert(EmptyMap, <<2024, 3, 1>>, day)) :
             day \in InitDayLogs \cup {TwoShiftDay}}

InitFiles == {Absent, EmptyFile, Malformed} \cup {Snapshot(log) : log \in InitLogs}

\* no rendering is under way
NoFormat == [op |-> "none", format |-> <<>>, date |-> NoDate, duration |-> 0,
             project |-> "", pos |-> 1, out |-> "", result |-> "ok"]

\* the record invocations that may run side by side
Procs == {1, 2}

\* no invocation runs beside the command
NoProcs ==
    [i \in Procs |-> [pc |-> "idle", project |-> "", time |-> 0,
                      loaded |-> LogDefault, log |-> LogDefault]]

\* nothing has been written to the file
NoRewrite == [head |-> FALSE, top |-> 0, extent |-> 0, last |-> 0, overlapped |-> FALSE]

NoCmd == [name |-> "none", project |-> "", date |-> NoDate, time |-> 0,
          decimal |-> FALSE, result |-> "ok"]

InitWith(files) ==
    /\ file \in files
    /\ pre_file = file
    /\ cmd = NoCmd
    /\ stdout = <<>>
    /\ times = EmptyMap
    /\ fmt = NoFormat
    /\ proc = NoProcs
    /\ rewrite = NoRewrite

\* the first command finds any snapshot
Init == InitWith(InitFiles)

\* the first command finds no snapshot: every punch comes from Record::insert
InitFresh == InitWith({Absent, EmptyFile})

Next ==
    \/ \E project \in Projects, date \in Dates, now \in Times : Record(project, date, now)
    \/ \E project \in Projects, decimal \in BOOLEAN : Show(project, decimal)

Spec == Init /\ [][Next]_vars

SpecFresh == InitFresh /\ [][Next]_vars

----------------------------------------------------------------------------
(* record and show under a clock that does not run backwards.              *)

\* clock readings either side of the window of an End set half a window
\* after midnight
LaterTimes ==
    {0,
     DefaultTolerance \div 2,
     DefaultTolerance \div 2 + DefaultTolerance,
     DefaultTolerance \div 2 + DefaultTolerance + 1,
     2 * DefaultTolerance + 2}

\* the date the clock reads throughout
Today == <<2024, 3, 1>>

\* the time of the last punch of (project, date) in the snapshot: the clock
\* reading of the last record for it, 0 when there is none
LastReading(f, project, date) ==
    LET day == OrDefault(OrDefault(IF f.kind = "json" THEN Deserialize(f.data)
                                   ELSE LogDefault,
                                   project, EmptyMap), date, <<>>)
    IN  IF day = <<>> THEN 0 ELSE day[Len(day)].time

\* Commands::Record run when the clock reads no less than it did at the last
\* record for the same project and date
RecordInOrder(project, date, now) ==
    /\ now >= LastReading(file, project, date)
    /\ Record(project, date, now)

NextInOrder ==
    \/ \E project \in Projects, now \in LaterTimes :
          RecordInOrder(project, Today, now)
    \/ \E project \in Projects, decimal \in BOOLEAN : Show(project, decimal)

SpecInOrder == InitFresh /\ [][NextInOrder]_vars

----------------------------------------------------------------------------
(* Two record invocations on one path.  Each runs main's Record arm: it    *)
(* reads the file and inserts in memory (lines 284-291), truncates the     *)
(* file (File::create, line 293) and writes the Log (Record::commit, line  *)
(* 295) through a descriptor of its own, from offset 0 on.  serde_json     *)
(* hands the File one piece after the other; the first piece is the "{"    *)
(* of the Log, and the pieces after it are one step here.  (Taken apart,   *)
(* they give more ways for two rewrites that overlap to mix.)              *)

\* the other invocation
Other(i) == CHOOSE j \in Procs : j # i

\* the snapshots two invocations may start from
ConcurrentFiles ==
    {Absent, Malformed}
    \cup {Snapshot(MapInsert(EmptyMap, "acme", MapInsert(EmptyMap, Today, day))) :
            day \in {<<[typ |-> "Start", time |-> 0, tolerance |-> DefaultTolerance]>>,
                     <<[typ |-> "Start", time |-> 0, tolerance |-> DefaultTolerance],
                       [typ |-> "End",   time |-> 0, tolerance |-> DefaultTolerance]>>}}

\* the number of decimal digits of n
RECURSIVE Digits(_)
Digits(n) == IF n < 10 THEN 1 ELSE 1 + Digits(n \div 10)

\* the bytes to_writer_pretty writes for a TimeStamp inside a day's array:
\* braces, three indented fields, two commas
TimeStampSize(ts) ==
    1
    + (1 + 8 + 8 + (IF ts.typ = "Start" THEN 5 ELSE 3) + 2) + 1
    + (1 + 8 + 8 + 10) + 1
    + (1 + 8 + 13 + Digits(ts.tolerance))
    + (1 + 6 + 1)

RECURSIVE DaySizeFrom(_, _)
DaySizeFrom(day, i) ==
    IF i > Len(day) THEN 0
    ELSE (IF i > 1 THEN 1 ELSE 0) + 1 + 6 + TimeStampSize(day[i]) + DaySizeFrom(day, i + 1)

\* the bytes of a day's array: "[]", or its elements one to a line
DaySize(day) == IF day = <<>> THEN 2 ELSE 1 + DaySizeFrom(day, 1) + 1 + 4 + 1

RECURSIVE ProjectSizeOver(_, _)
ProjectSizeOver(project, dates) ==
    IF dates = {} THEN 0
    ELSE LET d == CHOOSE d \in dates : TRUE
         IN  1 + 1 + 4 + 12 + 2 + DaySize(project[d]) + ProjectSizeOver(project, dates \ {d})

\* the bytes of a Project: "{}", or its dates one to a line
ProjectSize(project) ==
    IF DOMAIN project = {} THEN 2
    ELSE 1 + (ProjectSizeOver(project, DOMAIN project) - 1) + 1 + 2 + 1

RECURSIVE LogSizeOver(_, _)
LogSizeOver(log, names) ==
    IF names = {} THEN 0
    ELSE LET p == CHOOSE p \in names : TRUE
         IN  1 + 1 + 2 + (Len(p) + 2) + 2 + ProjectSize(log[p]) + LogSizeOver(log, names \ {p})

\* the number of bytes serde_json::to_writer_pretty writes for a Log
LogSize(log) ==
    IF DOMAIN log = {} THEN 2
    ELSE 1 + (LogSizeOver(log, DOMAIN log) - 1) + 1 + 1

\* lines 284-291 on the bytes f: Record::open fails, or the invocation holds
\* the Log it read and the Log after insert
OpenResult(f, project, date, now) ==
    IF f.kind = "malformed"
    THEN [pc |-> "failed", project |-> project, time |-> now,
          loaded |-> LogDefault, log |-> LogDefault]
    ELSE LET loaded == IF f.kind \in {"absent", "empty"} THEN LogDefault
                       ELSE Deserialize(f.data)
         IN  [pc |-> "create", project |-> project, time |-> now,
              loaded |-> loaded, log |-> Insert(loaded, project, date, now)]

\* CommitBytes for a commit that comes before the insert: the Log as read
CommitBytes_Loaded(p) == Snapshot(p.loaded)

\* the bytes commit writes for an invocation
CommitBytes(p) == Snapshot(p.log)

\* what the path holds given what was written since the last truncation
\* (rw.head: a first byte "{"; rw.top: whose later pieces were written last;
\* rw.extent: how far later pieces have reached): nothing, the Log of rw.top
\* when its pieces reach as far as any, or bytes that do not parse (a lone
\* "{", a hole at the first byte, bytes of a longer Log after the end)
OnDisk(rw, procs) ==
    IF ~rw.head /\ rw.top = 0 THEN EmptyFile
    ELSE IF rw.head /\ rw.top # 0 /\ rw.extent = LogSize(procs[rw.top].log)
    THEN CommitBytes(procs[rw.top])
    ELSE Malformed

\* an invocation between its File::create and the end of its commit
InWindow(p) == p.pc \in {"write", "finish"}

Open(i, now) ==
    /\ proc[i].pc = "open"
    /\ proc' = [proc EXCEPT ![i] = OpenResult(file, proc[i].project, Today, now)]
    /\ UNCHANGED <<file, pre_file, cmd, stdout, times, fmt, rewrite>>

\* File::create: the file is truncated
Create(i) ==
    /\ proc[i].pc = "create"
    /\ file' = EmptyFile
    /\ proc' = [proc EXCEPT ![i].pc = "write"]
    /\ rewrite' = [rewrite EXCEPT !.head = FALSE, !.top = 0, !.extent = 0,
                                  !.overlapped = @ \/ InWindow(proc[Other(i)])]
    /\ UNCHANGED <<pre_file, cmd, stdout, times, fmt>>

\* the first piece of commit, "{", is written at offset 0
WriteSome(i) ==
    /\ proc[i].pc = "write"
    /\ rewrite' = [rewrite EXCEPT !.head = TRUE]
    /\ file' = OnDisk(rewrite', proc)
    /\ proc' = [proc EXCEPT ![i].pc = "finish"]
    /\ UNCHANGED <<pre_file, cmd, stdout, times, fmt>>

\* the other pieces of commit are written from offset 1 on
WriteRest(i) ==
    /\ proc[i].pc = "finish"
    /\ rewrite' = [rewrite EXCEPT
                      !.top = i,
                      !.extent = IF @ > LogSize(proc[i].log) THEN @
                                 ELSE LogSize(proc[i].log),
                      !.last = i]
    /\ file' = OnDisk(rewrite', proc)
    /\ proc' = [proc EXCEPT ![i].pc = "done"]
    /\ UNCHANGED <<pre_file, cmd, stdout, times, fmt>>

InitConcurrent ==
    /\ file \in ConcurrentFiles
    /\ pre_file = file
    /\ cmd = NoCmd
    /\ stdout = <<>>
    /\ times = EmptyMap
    /\ fmt = NoFormat
    /\ proc \in [Procs -> {[pc |-> "open", project |-> p, time |-> 0,
                           loaded |-> LogDefault, log |-> LogDefault] : p \in Projects}]
    /\ rewrite = NoRewrite

NextConcurrent ==
    \/ \E i \in Procs, now \in Times : Open(i, now)
    \/ \E i \in Procs : Create(i)
    \/ \E i \in Procs : WriteSome(i)
    \/ \E i \in Procs : WriteRest(i)

SpecConcurrent == InitConcurrent /\ [][NextConcurrent]_vars

----------------------------------------------------------------------------
(* Renderings: Display for MyDuration (main.rs) and Display for Formatter  *)
(* (format.rs), one turn of its loop at a time.                            *)

\* the length of the templates Formatter is run on
MaxTemplateLen == 3
\* the spans MyDuration renders reach this many half minutes either side of 0
MaxHalfMinutes == 250

\* the characters of a template: '%', the directive letters, and a letter
\* that is no directive
Chars == {"%", "d", "Y", "M", "D", "t", "h", "m", "P", "x"}

Templates == UNION {[1..n -> Chars] : n \in 0..MaxTemplateLen}

\* "%d %P: %h h %m m (%t)"
ExampleTemplate ==
    <<"%", "d", " ", "%", "P", ":", " ", "%", "h", " ", "h", " ",
      "%", "m", " ", "m", " ", "(", "%", "t", ")">>

\* the fields of a Formatter beside the template: 90 minutes of "acme" on
\* 2024-03-01, and a negative span with seconds of the default project
FormatterFields ==
    {[date |-> <<2024, 3, 1>>, duration |-> 90 * 60, project |-> "acme"],
     [date |-> <<2024, 3, 2>>, duration |-> -(90 * 60 + 30), project |-> ""]}

\* spans in seconds, half a minute apart
Spans == {30 * k : k \in (-MaxHalfMinutes)..MaxHalfMinutes}

\* Directive with the minutes of the hour for %m (num_minutes() % 60)
Directive_MinutesOfHour(ch, date, duration, project) ==
    CASE ch = "%" -> <<"%">>
      [] ch = "d" -> <<DateDisplay(date)>>
      [] ch = "Y" -> <<Pad4(date[1])>>
      [] ch = "M" -> <<Pad2(date[2])>>
      [] ch = "D" -> <<Pad2(date[3])>>
      [] ch = "t" -> <<DecimalDurationDisplay(duration)>>
      [] ch = "h" -> <<ToString(num_hours(duration))>>
      [] ch = "m" -> <<ToString(TruncRem(num_minutes(duration), 60))>>
      [] ch = "P" -> <<project>>
      [] OTHER    -> <<>>

\* the match of format.rs:25-36 on the character after a '%': what is written,
\* or <<>> for the arm that returns Err
Directive(ch, date, duration, project) ==
    CASE ch = "%" -> <<"%">>
      [] ch = "d" -> <<DateDisplay(date)>>
      [] ch = "Y" -> <<Pad4(date[1])>>
      [] ch = "M" -> <<Pad2(date[2])>>
      [] ch = "D" -> <<Pad2(date[3])>>
      [] ch = "t" -> <<DecimalDurationDisplay(duration)>>
      [] ch = "h" -> <<ToString(num_hours(duration))>>
      [] ch = "m" -> <<ToString(num_minutes(duration))>>
      [] ch = "P" -> <<project>>
      [] OTHER    -> <<>>

\* one turn of the while loop of Formatter::fmt (format.rs:18-37) from the
\* place f.pos, or its exit with Ok(()) when chars.next() is None
FormatterStep(f) ==
    IF f.pos > Len(f.format) THEN [f EXCEPT !.result = "ok"]
    ELSE IF f.format[f.pos] # "%"
    THEN [f EXCEPT !.out = @ \o f.format[f.pos], !.pos = @ + 1]
    ELSE IF f.pos + 1 > Len(f.format)
    THEN [f EXCEPT !.result = "error", !.pos = @ + 1]
    ELSE LET written == Directive(f.format[f.pos + 1], f.date, f.duration, f.project)
         IN  IF written = <<>>
             THEN [f EXCEPT !.result = "error", !.pos = @ + 2]
             ELSE [f EXCEPT !.out = @ \o written[1], !.pos = @ + 2]

FormatterFmt ==
    /\ fmt.op = "template"
    /\ fmt.result = "pending"
    /\ fmt' = FormatterStep(fmt)
    /\ UNCHANGED <<file, pre_file, cmd, stdout, times, proc, rewrite>>

\* write!(f, "{}", MyDuration(duration))
MyDurationFmt ==
    /\ fmt.op = "human"
    /\ fmt.result = "pending"
    /\ fmt' = [fmt EXCEPT !.out = MyDurationDisplay(fmt.duration), !.result = "ok"]
    /\ UNCHANGED <<file, pre_file, cmd, stdout, times, proc, rewrite>>

\* a Formatter or a MyDuration about to be written
InitFormat ==
    /\ file = Absent
    /\ pre_file = Absent
    /\ cmd = NoCmd
    /\ stdout = <<>>
    /\ times = EmptyMap
    /\ proc = NoProcs
    /\ rewrite = NoRewrite
    /\ \/ \E t \in Templates \cup {ExampleTemplate}, x \in FormatterFields :
             fmt = [op |-> "template", format |-> t, date |-> x.date,
                    duration |-> x.duration, project |-> x.project,
                    pos |-> 1, out |-> "", result |-> "pending"]
       \/ \E s \in Spans :
             fmt = [op |-> "human", format |-> <<>>, date |-> NoDate,
                    duration |-> s, project |-> "",
                    pos |-> 1, out |-> "", result |-> "pending"]

NextFormat ==
    \/ FormatterFmt
    \/ MyDurationFmt

SpecFormat == InitFormat /\ [][NextFormat]_vars

----------------------------------------------------------------------------
(* What the claims speak of.                                               *)

\* the Log a snapshot stands for (none for a malformed one)
LogOf(f) == IF f.kind = "json" THEN Deserialize(f.data) ELSE LogDefault

\* the Day Log of (project, date) in a Log, empty when there is none
DayLogIn(log, project, date) == OrDefault(OrDefault(log, project, EmptyMap), date, <<>>)

\* the last command was a record that ran to its end
Recorded == cmd.name = "record" /\ cmd.result = "ok"

\* the Day Log record reconciled, before and after the call
PreDay == DayLogIn(LogOf(pre_file), cmd.project, cmd.date)

PostDay == DayLogIn(LogOf(file), cmd.project, cmd.date)

PreLast == PreDay[Len(PreDay)]

\* kinds Start, End, Start, End, ... from the first punch on
Alternates(day) ==
    \A i \in 1..Len(day) : day[i].typ = (IF i % 2 = 1 THEN "Start" ELSE "End")

\* the last punch is an End and now is within that punch's own tolerance
WithinTolerance(day, now) ==
    /\ Len(day) > 0
    /\ day[Len(day)].typ = "End"
    /\ now <= day[Len(day)].time + day[Len(day)].tolerance

\* C1: in every Day Log built from nothing by reconcile calls alone the kinds
\* alternate Start, End, Start, End, ... beginning with Start
C1_KindsAlternate ==
    \A p \in Projects, d \in Dates : Alternates(DayLogIn(LogOf(file), p, d))

\* reconcile has brought a Day Log it built from nothing to four punches, the
\* third of them a Start set after the tolerance of the End before it
C1_Witness ==
    /\ Recorded
    /\ Len(PreDay) = 3
    /\ Len(PostDay) = 4
    /\ PostDay[3].time > PostDay[2].time + PostDay[2].tolerance

\* C2: reconciling within the tolerance the last End itself stores (its bound
\* included) appends nothing and changes only that End's time, to now
C2_DebounceAmendsLastEnd ==
    (Recorded /\ WithinTolerance(PreDay, cmd.time)) =>
        /\ Len(PostDay) = Len(PreDay)
        /\ \A i \in 1..(Len(PreDay) - 1) : PostDay[i] = PreDay[i]
        /\ PostDay[Len(PreDay)].typ = "End"
        /\ PostDay[Len(PreDay)].tolerance = PreLast.tolerance
        /\ PostDay[Len(PreDay)].time = cmd.time

\* a debounce exactly at the end of a window that is wider than the default
C2_Witness ==
    /\ Recorded
    /\ WithinTolerance(PreDay, cmd.time)
    /\ PreLast.tolerance # DefaultTolerance
    /\ cmd.time = PreLast.time + PreLast.tolerance
    /\ cmd.time > PreLast.time + DefaultTolerance
    /\ PostDay # PreDay

\* C3: reconciling an empty Day Log, or one whose last End's own tolerance
\* has passed, appends exactly the punch {Start, now, 900}
C3_AppendsStart ==
    (/\ Recorded
     /\ \/ PreDay = <<>>
        \/ PreLast.typ = "End" /\ cmd.time > PreLast.time + PreLast.tolerance) =>
        PostDay = Append(PreDay, [typ |-> "Start", time |-> cmd.time, tolerance |-> 900])

\* a Start appended one second after an End of tolerance 0, inside what
\* the default window would have been
C3_Witness ==
    /\ Recorded
    /\ PreDay # <<>>
    /\ PreLast.typ = "End"
    /\ PreLast.tolerance = 0
    /\ cmd.time > PreLast.time
    /\ cmd.time <= PreLast.time + DefaultTolerance
    /\ Len(PostDay) = Len(PreDay) + 1

\* C4: reconciling a Day Log whose last punch is a Start appends exactly the
\* punch {End, now, 900}, whatever now is, and leaves the Start as it was
C4_AppendsEnd ==
    (Recorded /\ PreDay # <<>> /\ PreLast.typ = "Start") =>
        PostDay = Append(PreDay, [typ |-> "End", time |-> cmd.time, tolerance |-> 900])

\* an End appended at a time before the time of the Start it closes
C4_Witness ==
    /\ Recorded
    /\ PreDay # <<>>
    /\ PreLast.typ = "Start"
    /\ cmd.time < PreLast.time
    /\ Len(PostDay) = Len(PreDay) + 1

\* the last punch of the reconciled Day Log kept its place, kind and tolerance,
\* and its time unless the call was a debounce, which set it to now
LastPunchKept ==
    LET n == Len(PreDay)
    IN  n > 0 =>
          /\ PostDay[n].typ = PreLast.typ
          /\ PostDay[n].tolerance = PreLast.tolerance
          /\ \/ PostDay[n].time = PreLast.time
             \/ /\ WithinTolerance(PreDay, cmd.time)
                /\ PostDay[n].time = cmd.time
                /\ Len(PostDay) = n

\* C9: reconcile removes, reorders and rewrites nothing: the punches before the
\* last are unchanged, the last keeps kind and tolerance (its time changes only
\* by a debounce), the length does not decrease, and no other Day Log changes
C9_HistoryKept ==
    Recorded =>
        LET before == LogOf(pre_file)
            after  == LogOf(file)
        IN  /\ Len(PostDay) >= Len(PreDay)
            /\ \A i \in 1..(Len(PreDay) - 1) : PostDay[i] = PreDay[i]
            /\ LastPunchKept
            /\ DOMAIN after = DOMAIN before \cup {cmd.project}
            /\ \A p \in DOMAIN before :
                  /\ DOMAIN after[p] =
                        DOMAIN before[p] \cup (IF p = cmd.project THEN {cmd.date} ELSE {})
                  /\ \A d \in DOMAIN before[p] :
                        <<p, d>> # <<cmd.project, cmd.date>> => after[p][d] = before[p][d]

\* a reconcile of a Day Log with punches, next to Day Logs with punches of
\* another date of its project and of another project
C9_Witness ==
    /\ Recorded
    /\ PreDay # <<>>
    /\ \E d \in Dates : d # cmd.date /\ DayLogIn(LogOf(pre_file), cmd.project, d) # <<>>
    /\ \E p \in Projects, d \in Dates :
          p # cmd.project /\ DayLogIn(LogOf(pre_file), p, d) # <<>>

\* C10: record on a snapshot that exists and does not parse fails and leaves
\* the snapshot as it was, with no punch inserted
C10_MalformedUntouched ==
    (cmd.name = "record" /\ pre_file.kind = "malformed") =>
        /\ cmd.result = "parse_error"
        /\ file = pre_file

\* record has run on a malformed snapshot
C10_Witness == cmd.name = "record" /\ pre_file.kind = "malformed"

----------------------------------------------------------------------------
(* show                                                                    *)

\* the last command was a show that ran to its end
Shown == cmd.name = "show" /\ cmd.result = "ok"

\* the Project Log it reported
ShownProject == LogOf(file)[cmd.project]

HasStart(day) == \E i \in 1..Len(day) : day[i].typ = "Start"

\* the kinds of a day's punches
Kinds(day) == [i \in 1..Len(day) |-> day[i].typ]

\* C5: for a Day Log Start, End, ..., Start, End of 2k >= 2 punches show gets k
\* closed intervals in log order, the i-th from punch 2i-1 to punch 2i, and no
\* open one
C5_PairsOfAlternatingDay ==
    Shown =>
        \A d \in DOMAIN ShownProject :
            LET day == ShownProject[d]
            IN  (Alternates(day) /\ Len(day) >= 2 /\ Len(day) % 2 = 0) =>
                    /\ d \in DOMAIN times
                    /\ times[d].items =
                          [i \in 1..(Len(day) \div 2) |->
                              [start |-> day[2 * i - 1].time, end |-> day[2 * i].time]]
                    /\ times[d].open = <<>>

\* show of the day 09:00-12:00, 13:00-17:00: two intervals, none open, 7 hours
C5_Witness ==
    /\ Shown
    /\ ~cmd.decimal
    /\ <<2024, 3, 1>> \in DOMAIN times
    /\ ShownProject[<<2024, 3, 1>>] = TwoShiftDay
    /\ times[<<2024, 3, 1>>] =
          [items    |-> <<[start |-> 32400, end |-> 43200], [start |-> 46800, end |-> 61200]>>,
           open     |-> <<>>,
           duration |-> 7 * 3600]
    /\ stdout = <<"2024-03-01 (7h0min):", "  - 09:00 - 12:00", "  - 13:00 - 17:00">>

\* C6: for a day with a Start, show gets an open interval exactly when the
\* day's last punch is a Start, and it begins at that Start's time; a day of one
\* Start has no closed interval
C6_OpenIffLastIsStart ==
    Shown =>
        \A d \in DOMAIN ShownProject :
            LET day  == ShownProject[d]
                last == day[Len(day)]
            IN  HasStart(day) =>
                    /\ d \in DOMAIN times
                    /\ last.typ = "Start" => times[d].open = <<last.time>>
                    /\ last.typ = "End" => times[d].open = <<>>
                    /\ Len(day) = 1 => times[d].items = <<>>

\* show of a project with a day Start, End, Start whose Starts differ in time and
\* a day of one Start
C6_Witness ==
    /\ Shown
    /\ \E d \in DOMAIN times :
          /\ Kinds(ShownProject[d]) = <<"Start", "End", "Start">>
          /\ ShownProject[d][3].time # ShownProject[d][1].time
          /\ times[d].open = <<ShownProject[d][3].time>>
    /\ \E d \in DOMAIN times :
          /\ Kinds(ShownProject[d]) = <<"Start">>
          /\ times[d].items = <<>>
          /\ times[d].open = <<ShownProject[d][1].time>>

RECURSIVE StripLeadingEnds(_)
StripLeadingEnds(day) ==
    IF day = <<>> \/ day[1].typ = "Start" THEN day
    ELSE StripLeadingEnds(Tail(day))

\* C7: the Ends before a day's first Start do not count: show gets what
\* get_times gives for the day without them, and for End, Start, End the one
\* interval from the Start to the last End
C7_LeadingEndsIgnored ==
    Shown =>
        \A d \in DOMAIN ShownProject :
            LET day  == ShownProject[d]
                rest == StripLeadingEnds(day)
            IN  HasStart(day) =>
                    /\ d \in DOMAIN times
                    /\ times[d].items = get_times(rest, 1).items
                    /\ times[d].open = get_times(rest, 1).open
                    /\ Kinds(day) = <<"End", "Start", "End">> =>
                          times[d].items = <<[start |-> day[2].time, end |-> day[3].time]>>

\* show of a day End, Start, End whose leading End has a time of its own
C7_Witness ==
    /\ Shown
    /\ \E d \in DOMAIN times :
          LET day == ShownProject[d]
          IN  /\ Kinds(day) = <<"End", "Start", "End">>
              /\ day[1].time # day[2].time
              /\ day[1].time # day[3].time
              /\ times[d].items = <<[start |-> day[2].time, end |-> day[3].time]>>
              /\ times[d].open = <<>>

RECURSIVE SumOfEnds(_)
SumOfEnds(items) ==
    IF items = <<>> THEN 0 ELSE Head(items).end + SumOfEnds(Tail(items))

RECURSIVE SumOfStarts(_)
SumOfStarts(items) ==
    IF items = <<>> THEN 0 ELSE Head(items).start + SumOfStarts(Tail(items))

\* the first line show writes for a day of the given total
HeaderLine(date, duration, decimal) ==
    DateDisplay(date) \o " ("
    \o (IF decimal THEN DecimalDurationDisplay(duration) ELSE MyDurationDisplay(duration))
    \o "):"

\* C8: the total show reports for a day is the signed sum of end - start over
\* the closed intervals get_times returned (the sum of the ends less the sum of
\* the starts), whatever their order, and the open interval adds nothing
C8_TotalIsSignedSum ==
    Shown =>
        \A d \in DOMAIN times :
            /\ times[d].duration = SumOfEnds(times[d].items) - SumOfStarts(times[d].items)
            /\ \E i \in 1..Len(stdout) :
                  stdout[i] = HeaderLine(d, SumOfEnds(times[d].items)
                                            - SumOfStarts(times[d].items), cmd.decimal)

\* show of a day whose closed interval ends before it starts, with an open
\* interval after it: the total is negative
C8_Witness ==
    /\ Shown
    /\ \E d \in DOMAIN times :
          /\ Len(times[d].items) = 1
          /\ times[d].items[1].end < times[d].items[1].start
          /\ times[d].open # <<>>
          /\ times[d].open[1] > 0
          /\ times[d].duration = times[d].items[1].end - times[d].items[1].start
          /\ times[d].duration < 0

----------------------------------------------------------------------------
(* errors                                                                  *)

\* the last command found no snapshot at its path
OnAbsent == pre_file.kind = "absent"

\* the Log of one Day Log, of one Start at the time record read
SingleStartLog ==
    MapInsert(EmptyMap, cmd.project,
              MapInsert(EmptyMap, cmd.date,
                        <<[typ |-> "Start", time |-> cmd.time, tolerance |-> 900]>>))

\* record, run where no snapshot exists, succeeds and persists the Log of a
\* single Start for its project and date
RecordOnAbsentStartsLog ==
    (cmd.name = "record" /\ OnAbsent) =>
        /\ cmd.result = "ok"
        /\ file.kind = "json"
        /\ LogOf(file) = SingleStartLog

\* C11 as stated: where no snapshot exists record persists the Log of a single
\* Start, and show ends and prints as it does on the snapshot of an empty Log
C11_AbsentIsEmptyLog ==
    /\ RecordOnAbsentStartsLog
    /\ (cmd.name = "show" /\ OnAbsent) =>
          /\ cmd.result = ShowResult(Snapshot(LogDefault), cmd.project, cmd.decimal).result
          /\ stdout = ShowResult(Snapshot(LogDefault), cmd.project, cmd.decimal).lines

\* C11, amended: where no snapshot exists record persists the Log of a single
\* Start; show fails with the I/O error of opening the file, which is not the
\* "project not found" of an empty Log, prints nothing and creates no snapshot
C11_AbsentRecordStartsShowFails ==
    /\ RecordOnAbsentStartsLog
    /\ (cmd.name = "show" /\ OnAbsent) =>
          /\ cmd.result = "io_error"
          /\ cmd.result # ShowResult(Snapshot(LogDefault), cmd.project, cmd.decimal).result
          /\ stdout = <<>>
          /\ file = pre_file

\* show has run where no snapshot exists and failed on opening the file
C11_Witness ==
    /\ cmd.name = "show"
    /\ OnAbsent
    /\ cmd.result = "io_error"
    /\ file.kind = "absent"

\* C12: show of a project that is not a key of the Log fails as "project not
\* found", which no other failure of show is taken for, and has written no
\* line
C12_UnknownProjectNotFound ==
    cmd.name = "show" =>
        /\ (file.kind = "json" /\ cmd.project \notin DOMAIN LogOf(file)) =>
              /\ cmd.result = "not_found"
              /\ stdout = <<>>
        /\ cmd.result = "not_found" =>
              /\ file.kind = "json"
              /\ cmd.project \notin DOMAIN LogOf(file)
        /\ file.kind \in {"empty", "malformed"} => cmd.result = "parse_error"
        /\ file.kind = "absent" => cmd.result = "io_error"

\* show of a project the Log does not hold, where the Log holds another
\* project with a day to report
C12_Witness ==
    /\ cmd.name = "show"
    /\ cmd.result = "not_found"
    /\ stdout = <<>>
    /\ \E p \in DOMAIN LogOf(file) :
          /\ p # cmd.project
          /\ \E d \in DOMAIN LogOf(file)[p] : HasStart(LogOf(file)[p][d])

\* the lines show writes for the dates from index i on, from what get_times
\* returned for them
RECURSIVE ReportedLines(_, _)
ReportedLines(dates, i) ==
    IF i > Len(dates) THEN <<>>
    ELSE LET t == times[dates[i]]
         IN  <<HeaderLine(dates[i], t.duration, cmd.decimal)>>
             \o [k \in 1..Len(t.items) |->
                    "  - " \o TimeDisplay(t.items[k].start) \o " - "
                           \o TimeDisplay(t.items[k].end)]
             \o (IF t.open = <<>> THEN <<>>
                 ELSE <<"  - " \o TimeDisplay(t.open[1]) \o " - ">>)
             \o ReportedLines(dates, i + 1)

\* C13: show of a project the Log holds succeeds whatever its days are; a date
\* whose Day Log has no Start gets no reconstruction and no line, and every
\* other date is reported, in ascending order
C13_StartlessDaysSkipped ==
    (cmd.name = "show" /\ file.kind = "json" /\ cmd.project \in DOMAIN LogOf(file)) =>
        LET started == {d \in DOMAIN ShownProject : HasStart(ShownProject[d])}
        IN  /\ cmd.result = "ok"
            /\ DOMAIN times = started
            /\ stdout = ReportedLines(DatesInOrder(started), 1)

\* show of a project with a first date of Ends only and a later date with a
\* Start: the later date alone is reported
C13_Witness ==
    /\ Shown
    /\ \E d, e \in DOMAIN ShownProject :
          /\ DateLess(d, e)
          /\ ShownProject[d] # <<>>
          /\ ~HasStart(ShownProject[d])
          /\ HasStart(ShownProject[e])
          /\ DOMAIN times = {e}
          /\ stdout = <<HeaderLine(e, 0, cmd.decimal),
                        "  - " \o TimeDisplay(ShownProject[e][1].time) \o " - ">>

----------------------------------------------------------------------------
(* renderings                                                              *)

\* a Formatter has been written to its end or to its error
Formatted == fmt.op = "template" /\ fmt.result # "pending"

\* what each directive letter stands for: whole hours for h, all the whole
\* minutes of the span for m
DirectiveValues ==
    [c \in {"%", "d", "Y", "M", "D", "t", "h", "m", "P"} |->
        CASE c = "%" -> "%"
          [] c = "d" -> DateDisplay(fmt.date)
          [] c = "Y" -> Pad4(fmt.date[1])
          [] c = "M" -> Pad2(fmt.date[2])
          [] c = "D" -> Pad2(fmt.date[3])
          [] c = "t" -> DecimalDurationDisplay(fmt.duration)
          [] c = "h" -> ToString(TruncDiv(fmt.duration, 3600))
          [] c = "m" -> ToString(TruncDiv(fmt.duration, 60))
          [] c = "P" -> fmt.project]

\* the expansion of template t read from the left: <<text>>, or <<>> when a
\* '%' of it is followed by no directive letter
RECURSIVE Expansion(_)
Expansion(t) ==
    IF t = <<>> THEN <<"">>
    ELSE IF Head(t) # "%"
    THEN LET rest == Expansion(Tail(t))
         IN  IF rest = <<>> THEN <<>> ELSE <<Head(t) \o rest[1]>>
    ELSE IF Len(t) < 2 \/ t[2] \notin DOMAIN DirectiveValues THEN <<>>
    ELSE LET rest == Expansion(Tail(Tail(t)))
         IN  IF rest = <<>> THEN <<>> ELSE <<DirectiveValues[t[2]] \o rest[1]>>

\* C14: Formatter reads the template from the left, copies every character but
\* '%', writes for '%' and a directive letter (%, d, Y, M, D, t, h, m, P) the
\* letter's value (h the whole hours, m all the whole minutes) and ends in a
\* formatting error exactly when some '%' is followed by anything else; the
\* example template gives "2024-03-01 acme: 1 h 90 m (1.50)"
C14_TemplateExpansion ==
    Formatted =>
        /\ fmt.result = (IF Expansion(fmt.format) = <<>> THEN "error" ELSE "ok")
        /\ fmt.result = "ok" => fmt.out = Expansion(fmt.format)[1]
        /\ (/\ fmt.format = ExampleTemplate
            /\ fmt.date = <<2024, 3, 1>>
            /\ fmt.project = "acme"
            /\ fmt.duration = 90 * 60) =>
              /\ fmt.result = "ok"
              /\ fmt.out = "2024-03-01 acme: 1 h 90 m (1.50)"

\* the example template has been expanded for 90 minutes of "acme"
C14_Witness ==
    /\ Formatted
    /\ fmt.format = ExampleTemplate
    /\ fmt.duration = 90 * 60
    /\ fmt.out = "2024-03-01 acme: 1 h 90 m (1.50)"

\* a MyDuration has been written
Rendered == fmt.op = "human" /\ fmt.result = "ok"

\* C15: a span of h hours, m < 60 minutes and s < 60 seconds is written
\* "<h>h<m>min", without "<h>h" when h is 0; 90 minutes is "1h30min", 45
\* minutes "45min", two hours "2h0min".  (The same span below zero carries its
\* sign on each number that is not 0: "-<h>h-<m>min".)
C15_HumanRendering ==
    Rendered =>
        /\ \A h \in 0..(MaxHalfMinutes \div 120), m \in 0..59, s \in 0..59 :
              /\ fmt.duration = 3600 * h + 60 * m + s =>
                    fmt.out = (IF h # 0 THEN ToString(h) \o "h" ELSE "")
                              \o ToString(m) \o "min"
              /\ fmt.duration = -(3600 * h + 60 * m + s) =>
                    fmt.out = (IF h # 0 THEN ToString(-h) \o "h" ELSE "")
                              \o ToString(-m) \o "min"
        /\ fmt.duration = 90 * 60 => fmt.out = "1h30min"
        /\ fmt.duration = 45 * 60 => fmt.out = "45min"
        /\ fmt.duration = 120 * 60 => fmt.out = "2h0min"

\* 90 minutes and a half have been written as "1h30min"
C15_Witness ==
    /\ Rendered
    /\ fmt.duration = 90 * 60 + 30
    /\ fmt.out = "1h30min"

----------------------------------------------------------------------------
(* runs of one kind                                                        *)

\* a set of indices as an ascending sequence
RECURSIVE Ascending(_)
Ascending(S) ==
    IF S = {} THEN <<>>
    ELSE LET least == CHOOSE x \in S : \A y \in S : x <= y
         IN  <<least>> \o Ascending(S \ {least})

\* the Ends that come right after a Start
ClosingEnds(day) ==
    {j \in 2..Len(day) : day[j].typ = "End" /\ day[j - 1].typ = "Start"}

\* C16: of a run of Starts only the last begins an interval: the closed
\* intervals are, in order, those from the Start right before an End to that
\* End, one for each End that follows a Start, and a day that ends in a run of
\* Starts has the open interval of the last of them
C16_LastStartOfRunCounts ==
    Shown =>
        \A d \in DOMAIN times :
            LET day  == ShownProject[d]
                ends == Ascending(ClosingEnds(day))
            IN  /\ Len(times[d].items) = Len(ends)
                /\ \A k \in 1..Len(ends) :
                      times[d].items[k].start = day[ends[k] - 1].time
                /\ day[Len(day)].typ = "Start" =>
                      times[d].open = <<day[Len(day)].time>>

\* show of a day Start, Start, End whose Starts differ in time: one interval,
\* from the second Start
C16_Witness ==
    /\ Shown
    /\ \E d \in DOMAIN times :
          LET day == ShownProject[d]
          IN  /\ Kinds(day) = <<"Start", "Start", "End">>
              /\ day[1].time # day[2].time
              /\ times[d].items = <<[start |-> day[2].time, end |-> day[3].time]>>
              /\ times[d].open = <<>>

\* the first Ends of the maximal runs of Ends after the first Start
RunHeads(day) ==
    {j \in 1..Len(day) :
        /\ day[j].typ = "End"
        /\ \E i \in 1..(j - 1) : day[i].typ = "Start"
        /\ day[j - 1].typ # "End"}

\* the day without the Ends that come right after an End
RECURSIVE Squeeze(_)
Squeeze(day) ==
    IF Len(day) < 2 THEN day
    ELSE LET n == Len(day)
             front == Squeeze(SubSeq(day, 1, n - 1))
         IN  IF day[n].typ = "End" /\ day[n - 1].typ = "End" THEN front
             ELSE Append(front, day[n])

\* C19: a run of Ends after a Start closes one interval, at the first End of
\* the run: there are as many closed intervals as maximal runs of Ends after
\* the first Start, the k-th ends at the first End of the k-th run, and the
\* later Ends of a run change nothing: intervals and total are those of the
\* day without them
C19_FirstEndOfRunCloses ==
    Shown =>
        \A d \in DOMAIN times :
            LET day   == ShownProject[d]
                heads == Ascending(RunHeads(day))
            IN  /\ Len(times[d].items) = Len(heads)
                /\ \A k \in 1..Len(heads) : times[d].items[k].end = day[heads[k]].time
                /\ <<times[d]>> = DayTimes(Squeeze(day))

\* show of a day Start, End, End whose Ends differ in time: one interval, to
\* the first End
C19_Witness ==
    /\ Shown
    /\ \E d \in DOMAIN times :
          LET day == ShownProject[d]
          IN  /\ Kinds(day) = <<"Start", "End", "End">>
              /\ day[2].time # day[3].time
              /\ times[d].items = <<[start |-> day[1].time, end |-> day[2].time]>>
              /\ times[d].duration = day[2].time - day[1].time
              /\ times[d].open = <<>>

----------------------------------------------------------------------------
(* a clock that does not run backwards                                     *)

\* the times of the punches do not decrease along the day
InOrder(day) == \A i \in 1..(Len(day) - 1) : day[i].time <= day[i + 1].time

\* C18: when the clock readings of the successive records of a Day Log built
\* from nothing do not decrease, the punch times of the Day Log never
\* decrease along it; every closed interval show gets from it ends no earlier
\* than it starts, begins no earlier than the one before it ends, and the
\* day's total is not negative
C18_ChronologicalLog ==
    /\ \A p \in Projects, d \in Dates : InOrder(DayLogIn(LogOf(file), p, d))
    /\ Shown =>
          \A d \in DOMAIN times :
              LET items == times[d].items
              IN  /\ \A k \in 1..Len(items) : items[k].end >= items[k].start
                  /\ \A k \in 1..(Len(items) - 1) : items[k + 1].start >= items[k].end
                  /\ times[d].duration >= 0

\* show of a day of two intervals of some length with a break between them
C18_Witness ==
    /\ Shown
    /\ \E d \in DOMAIN times :
          LET items == times[d].items
          IN  /\ Len(items) = 2
              /\ items[1].end > items[1].start
              /\ items[2].start > items[1].end
              /\ items[2].end > items[2].start
              /\ times[d].duration = (items[1].end - items[1].start)
                                     + (items[2].end - items[2].start)

----------------------------------------------------------------------------
(* two invocations                                                         *)

\* both invocations have ended and one of them has rewritten the file
BothEnded ==
    /\ \A i \in Procs : proc[i].pc \in {"done", "failed"}
    /\ rewrite.last # 0

\* the invocation that ended its rewrite last
LastWriter == proc[rewrite.last]

\* the file is the Log the last writer read with its own punch reconciled
LastWriterWins ==
    /\ file.kind = "json"
    /\ LogOf(file) = Insert(LastWriter.loaded, LastWriter.project, Today, LastWriter.time)

\* C17 as stated: after two record invocations on one file the snapshot is the
\* Log of the one that rewrote last: what it read plus its own punch
C17_LastWriterWins == BothEnded => LastWriterWins

\* C17, amended: the same when the two rewrites did not overlap, that is when
\* neither invocation truncated the file between the other's File::create and
\* the end of the other's commit
C17_LastWriterWinsApart == (BothEnded /\ ~rewrite.overlapped) => LastWriterWins

\* both invocations read the same snapshot, for different projects, before
\* either rewrote it, and rewrote it one after the other: the file is the
\* second one's Log, and the Day Log of the first is as it was before
C17_Witness ==
    /\ BothEnded
    /\ ~rewrite.overlapped
    /\ pre_file.kind = "json"
    /\ \A i \in Procs : proc[i].pc = "done" /\ proc[i].loaded = LogOf(pre_file)
    /\ LET other == proc[Other(rewrite.last)]
       IN  /\ other.project # LastWriter.project
           /\ file = Snapshot(LastWriter.log)
           /\ DayLogIn(LogOf(file), other.project, Today)
                 = DayLogIn(LogOf(pre_file), other.project, Today)
           /\ DayLogIn(LogOf(file), other.project, Today)
                 # DayLogIn(other.log, other.project, Today)

====
